---- MODULE Spec2Model ----
(***************************************************************************)
(* A model of the Quartile solver package (streamlit_app/solver):          *)
(*   trie.py            TrieNode.insert / search / word_count              *)
(*   word_generator.py  generate_plural / generate_verb_forms              *)
(*   dictionary.py      load_dictionary                                    *)
(*   solver.py          solve_puzzle / parse_puzzle_input / validate_puzzle*)
(*                                                                         *)
(* A Python str is modelled as a sequence of one-character strings, so     *)
(* "cat" is <<"c", "a", "t">> and "" is << >>.                             *)
(***************************************************************************)
EXTENDS Integers, Sequences, FiniteSets, TLC

VARIABLES
    pc,                     \* position of the running function
    trie,                   \* the root TrieNode
    calls,                  \* history: the words passed to TrieNode.insert, in order
    lexicon,                \* the lines of the dictionary file (load_dictionary)
    lineno,                 \* number of lexicon lines consumed by the for loop
    load_word_count,        \* load_dictionary's local word_count
    text,                   \* the argument of parse_puzzle_input
    base_word,              \* the argument of generate_plural / generate_verb_forms
    tiles,                  \* the tile list (validate_puzzle, solve_puzzle)
    r,                      \* solve_puzzle: the subset size of the outer loop
    combo,                  \* solve_puzzle: tile positions of the current combination
    perm,                   \* solve_puzzle: current ordering of the positions of combo
    valid_words,            \* solve_puzzle: the set of words found
    permutations_checked,   \* solve_puzzle: the enumeration counter
    ret                     \* the value the function returned

vars == <<pc, trie, calls, lexicon, lineno, load_word_count, text, base_word, tiles,
          r, combo, perm, valid_words, permutations_checked, ret>>

\* The value of the variables a specification does not use.
None == "None"

(***************************************************************************)
(* Bounds of the model.                                                    *)
(***************************************************************************)
MaxInserts == 3         \* TrieNode.insert calls in one behaviour
MaxWordLen == 2         \* length of the words inserted directly
MaxTextLen == 6         \* length of the text given to parse_puzzle_input
MaxShortList == 3       \* length of the short tile lists given to validate_puzzle
MaxPrefix == 2          \* distinct leading tiles of the long tile lists
MaxSolveTiles == 5      \* length of the tile lists given to solve_puzzle
MaxLines == 2           \* lines of the lexicon given to load_dictionary

(***************************************************************************)
(* Characters and strings.                                                 *)
(***************************************************************************)
Range(s) == {s[i] : i \in 1..Len(s)}

\* All sequences over S of length at most n.
SeqsUpTo(S, n) == UNION {[1..k -> S] : k \in 0..n}

RECURSIVE Concat(_)
\* "".join(parts)
Concat(parts) ==
    IF parts = << >> THEN << >> ELSE Head(parts) \o Concat(Tail(parts))

IsPrefix(p, w) == Len(p) <= Len(w) /\ SubSeq(w, 1, Len(p)) = p
IsStrictPrefix(p, w) == IsPrefix(p, w) /\ Len(p) < Len(w)

(***************************************************************************)
(* trie.py                                                                 *)
(***************************************************************************)
\* TrieNode.__init__: no children, is_end False.
TrieNode == [children |-> << >>, is_end |-> FALSE]

RECURSIVE insert_overwrite(_, _)
\* A faulty insert that creates a new child for every character, also when the
\* child exists.
insert_overwrite(node, word) ==
    IF word = << >>
    THEN [node EXCEPT !.is_end = TRUE]
    ELSE LET char == Head(word)
         IN  [node EXCEPT !.children =
                 [c \in DOMAIN node.children \cup {char} |->
                     IF c = char THEN insert_overwrite(TrieNode, Tail(word))
                                 ELSE node.children[c]]]

RECURSIVE insert(_, _)
\* TrieNode.insert: walk the characters of word from node, creating the
\* children that are missing, and set is_end on the node reached.
insert(node, word) ==
    IF word = << >>
    THEN [node EXCEPT !.is_end = TRUE]
    ELSE LET char  == Head(word)
             child == IF char \in DOMAIN node.children
                      THEN node.children[char]
                      ELSE TrieNode
         IN  [node EXCEPT !.children =
                 [c \in DOMAIN node.children \cup {char} |->
                     IF c = char THEN insert(child, Tail(word))
                                 ELSE node.children[c]]]

RECURSIVE search_prefix(_, _)
\* A faulty search that accepts every path of the trie, ignoring is_end.
search_prefix(node, word) ==
    IF word = << >>
    THEN TRUE
    ELSE IF Head(word) \notin DOMAIN node.children
         THEN FALSE
         ELSE search_prefix(node.children[Head(word)], Tail(word))

RECURSIVE search(_, _)
\* TrieNode.search: False as soon as a character has no child, else the
\* is_end flag of the node reached.
search(node, word) ==
    IF word = << >>
    THEN node.is_end
    ELSE IF Head(word) \notin DOMAIN node.children
         THEN FALSE
         ELSE search(node.children[Head(word)], Tail(word))

RECURSIVE SumOver(_, _)
\* The sum of f[x] over the x of S.
SumOver(f, S) ==
    IF S = {} THEN 0
    ELSE LET x == CHOOSE y \in S : TRUE IN f[x] + SumOver(f, S \ {x})

RECURSIVE word_count(_)
\* TrieNode.word_count: 1 if is_end, plus the counts of the children.
word_count(node) ==
    (IF node.is_end THEN 1 ELSE 0)
    + SumOver([c \in DOMAIN node.children |-> word_count(node.children[c])],
              DOMAIN node.children)

(***************************************************************************)
(* Direct use of the trie: any sequence of inserts on an empty trie.       *)
(***************************************************************************)
TrieAlphabet == {"a", "b"}
TrieWords == SeqsUpTo(TrieAlphabet, MaxWordLen)
\* The words looked up: one character longer than any inserted word, so that
\* strict extensions are among them.
TrieProbes == SeqsUpTo(TrieAlphabet, MaxWordLen + 1)

InitTrie ==
    /\ pc = "trie"
    /\ trie = TrieNode
    /\ calls = << >>
    /\ lexicon = None /\ lineno = 0 /\ load_word_count = 0
    /\ text = None /\ tiles = None
    /\ r = 0 /\ combo = << >> /\ perm = << >>
    /\ valid_words = {} /\ permutations_checked = 0
    /\ ret = None
    /\ base_word = None

\* trie.insert(word)
Insert ==
    /\ pc = "trie"
    /\ Len(calls) < MaxInserts
    /\ \E word \in TrieWords :
          /\ trie' = insert(trie, word)
          /\ calls' = Append(calls, word)
    /\ UNCHANGED <<base_word, pc, lexicon, lineno, load_word_count, text, tiles,
                   r, combo, perm, valid_words, permutations_checked, ret>>

NextTrie == Insert

SpecTrie == InitTrie /\ [][NextTrie]_vars

\* C3: after any sequence of inserts on an empty trie, search(w) is true
\* exactly for the words w that were inserted, character for character; so an
\* inserted word stays found after later inserts, and a strict prefix or strict
\* extension that was not itself inserted is not found.
C3_SearchIffInserted ==
    pc = "trie" =>
        \A w \in TrieProbes : search(trie, w) <=> w \in Range(calls)

\* A word inserted first and followed by other inserts is still found, while a
\* strict prefix and a strict extension of it, never inserted, are not.
C3_Witness ==
    /\ pc = "trie"
    /\ Len(calls) >= 2
    /\ search(trie, calls[1])
    /\ \E p, e \in TrieProbes :
          /\ IsStrictPrefix(p, calls[1]) /\ p \notin Range(calls)
          /\ IsStrictPrefix(calls[1], e) /\ e \notin Range(calls)
          /\ ~search(trie, p) /\ ~search(trie, e)
          /\ \E k \in 2..Len(calls) : IsStrictPrefix(calls[1], calls[k])

\* C4: word_count() at the root is the number of distinct words inserted,
\* however often each was inserted, and inserting a word that is already
\* stored changes neither word_count() nor the result of any search.
C4_WordCountDistinct ==
    /\ [](pc = "trie" => word_count(trie) = Cardinality(Range(calls)))
    /\ [][(pc = "trie" /\ Len(calls') = Len(calls) + 1
             /\ calls'[Len(calls')] \in Range(calls))
          => /\ word_count(trie') = word_count(trie)
             /\ \A w \in TrieProbes : search(trie', w) = search(trie, w)]_vars

\* A word has been inserted a second time and the count is that of the
\* distinct words, smaller than the number of calls.
C4_Witness ==
    /\ pc = "trie"
    /\ Len(calls) = MaxInserts
    /\ calls[Len(calls)] \in Range(SubSeq(calls, 1, Len(calls) - 1))
    /\ Cardinality(Range(calls)) >= 2
    /\ word_count(trie) = Cardinality(Range(calls))
    /\ word_count(trie) < Len(calls)

(***************************************************************************)
(* Python str methods used by solver.py and dictionary.py.                 *)
(***************************************************************************)
\* The characters str.strip() removes that a TLA+ string can spell
\* (str.isspace: also \v, \x1c..\x1f and the Unicode spaces).
Whitespace == {" ", "\t", "\n", "\r", "\f"}

LowerLetters ==
    <<"a", "b", "c", "d", "e", "f", "g", "h", "i", "j", "k", "l", "m",
      "n", "o", "p", "q", "r", "s", "t", "u", "v", "w", "x", "y", "z">>
UpperLetters ==
    <<"A", "B", "C", "D", "E", "F", "G", "H", "I", "J", "K", "L", "M",
      "N", "O", "P", "Q", "R", "S", "T", "U", "V", "W", "X", "Y", "Z">>

\* A string of n copies of the character c: c * n
Rep(c, n) == [i \in 1..n |-> c]

\* str.isupper() of one character (the ASCII letters)
isupper(c) == \E i \in 1..Len(UpperLetters) : UpperLetters[i] = c

\* str.lower(): every upper-case letter replaced by its lower-case letter
lower(s) ==
    [i \in 1..Len(s) |->
        IF isupper(s[i])
        THEN LowerLetters[CHOOSE k \in 1..Len(UpperLetters) : UpperLetters[k] = s[i]]
        ELSE s[i]]

RECURSIVE lstrip(_)
lstrip(s) ==
    IF s # << >> /\ Head(s) \in Whitespace THEN lstrip(Tail(s)) ELSE s

RECURSIVE rstrip(_)
rstrip(s) ==
    IF s # << >> /\ s[Len(s)] \in Whitespace
    THEN rstrip(SubSeq(s, 1, Len(s) - 1))
    ELSE s

\* str.strip(): leading and trailing whitespace removed
strip(s) == rstrip(lstrip(s))

RECURSIVE split(_, _)
\* str.split(sep) for a one-character sep: the pieces between the separators,
\* one more than there are separators ("" splits into [""]).
split(s, sep) ==
    IF \A i \in 1..Len(s) : s[i] # sep
    THEN <<s>>
    ELSE LET i == CHOOSE k \in 1..Len(s) :
                     s[k] = sep /\ \A j \in 1..(k - 1) : s[j] # sep
         IN  <<SubSeq(s, 1, i - 1)>> \o split(SubSeq(s, i + 1, Len(s)), sep)

\* s.endswith(suffix)
endswith(s, suffix) ==
    Len(suffix) <= Len(s) /\ SubSeq(s, Len(s) - Len(suffix) + 1, Len(s)) = suffix

(***************************************************************************)
(* solver.py: parse_puzzle_input                                           *)
(***************************************************************************)
\* A faulty filter that tests the raw line: if line
line_kept_raw(line) == line # << >>

\* The filter of the comprehension: if line.strip()
line_kept(line) == strip(line) # << >>

\* parse_puzzle_input(text):
\*   [line.strip().lower() for line in text.strip().split("\n") if line.strip()]
parse_puzzle_input(t) ==
    LET kept == SelectSeq(split(strip(t), "\n"), line_kept)
    IN  [i \in 1..Len(kept) |-> lower(strip(kept[i]))]

(***************************************************************************)
(* solver.py: validate_puzzle                                              *)
(***************************************************************************)
MaxTiles == 20
MaxTileLen == 10

NoTilesEntered ==
    <<"N", "o", " ", "t", "i", "l", "e", "s", " ", "e", "n", "t", "e", "r",
      "e", "d">>
TooManyTiles ==
    <<"T", "o", "o", " ", "m", "a", "n", "y", " ", "t", "i", "l", "e", "s",
      " ", "(", "m", "a", "x", "i", "m", "u", "m", " ", "2", "0", ")">>
EmptyTileFound ==
    <<"E", "m", "p", "t", "y", " ", "t", "i", "l", "e", " ", "f", "o", "u",
      "n", "d">>
\* f"Tile '{tile}' is too long (maximum 10 characters)"
TileTooLong(tile) ==
    <<"T", "i", "l", "e", " ", "'">> \o tile \o
    <<"'", " ", "i", "s", " ", "t", "o", "o", " ", "l", "o", "n", "g", " ",
      "(", "m", "a", "x", "i", "m", "u", "m", " ", "1", "0", " ", "c", "h",
      "a", "r", "a", "c", "t", "e", "r", "s", ")">>

\* A faulty emptiness test that trims the tile first: not tile.strip()
tile_is_empty_trimmed(tile) == strip(tile) = << >>

\* The test of line 81: not tile
tile_is_empty(tile) == tile = << >>

\* A faulty count test: len(tiles) >= 20
too_many_tiles_inclusive(ts) == Len(ts) >= MaxTiles

\* The test of line 77: len(tiles) > 20
too_many_tiles(ts) == Len(ts) > MaxTiles

RECURSIVE validate_tiles(_)
\* The for loop of validate_puzzle: the first tile that fails a check decides.
validate_tiles(ts) ==
    IF ts = << >> THEN <<TRUE, << >>>>
    ELSE IF tile_is_empty(Head(ts)) THEN <<FALSE, EmptyTileFound>>
    ELSE IF Len(Head(ts)) > MaxTileLen THEN <<FALSE, TileTooLong(Head(ts))>>
    ELSE validate_tiles(Tail(ts))

\* validate_puzzle(tiles) -> (ok, message)
validate_puzzle(ts) ==
    IF ts = << >> THEN <<FALSE, NoTilesEntered>>
    ELSE IF too_many_tiles(ts) THEN <<FALSE, TooManyTiles>>
    ELSE validate_tiles(ts)

(***************************************************************************)
(* parse_puzzle_input applied to every text over a small alphabet.         *)
(***************************************************************************)
ParseAlphabet == {" ", "\n", "a", "B"}

InitParse ==
    /\ pc = "parse"
    /\ text \in SeqsUpTo(ParseAlphabet, MaxTextLen)
    /\ trie = TrieNode /\ calls = << >>
    /\ lexicon = None /\ lineno = 0 /\ load_word_count = 0
    /\ tiles = None
    /\ r = 0 /\ combo = << >> /\ perm = << >>
    /\ valid_words = {} /\ permutations_checked = 0
    /\ ret = None
    /\ base_word = None

\* tiles = parse_puzzle_input(text)
ParsePuzzleInput ==
    /\ pc = "parse"
    /\ ret' = parse_puzzle_input(text)
    /\ pc' = "parsed"
    /\ UNCHANGED <<base_word, trie, calls, lexicon, lineno, load_word_count, text, tiles,
                   r, combo, perm, valid_words, permutations_checked>>

NextParse == ParsePuzzleInput

SpecParse == InitParse /\ [][NextParse]_vars

\* The lines of t as the claim reads them: line b starts after the newline at
\* position b (b = 0: at the start of t) and ends before the next newline.
LineBreaks(t) == {i \in 1..Len(t) : t[i] = "\n"}
LineStarts(t) == {0} \cup LineBreaks(t)
LineEnd(t, b) ==
    CHOOSE e \in LineBreaks(t) \cup {Len(t) + 1} :
        e > b /\ \A j \in LineBreaks(t) : j > b => e <= j
LineAt(t, b) == SubSeq(t, b + 1, LineEnd(t, b) - 1)
NonBlank(line) == \E i \in 1..Len(line) : line[i] \notin Whitespace
\* A non-blank line without its surrounding whitespace.
Trimmed(line) ==
    LET inked == {i \in 1..Len(line) : line[i] \notin Whitespace}
        first == CHOOSE i \in inked : \A j \in inked : i <= j
        last  == CHOOSE i \in inked : \A j \in inked : j <= i
    IN  SubSeq(line, first, last)
NonBlankStarts(t) == {b \in LineStarts(t) : NonBlank(LineAt(t, b))}

\* C10: parse_puzzle_input returns, in line order, exactly the newline-separated
\* lines that are non-empty after trimming, each trimmed and lower-cased; so no
\* tile is empty or has surrounding whitespace, and there are as many tiles as
\* non-blank lines.
C10_ParseKeepsNonBlankLines ==
    pc = "parsed" =>
        /\ Len(ret) = Cardinality(NonBlankStarts(text))
        /\ \A b \in NonBlankStarts(text) :
              ret[Cardinality({c \in NonBlankStarts(text) : c <= b})]
                  = lower(Trimmed(LineAt(text, b)))
        /\ \A i \in 1..Len(ret) :
              /\ ret[i] # << >>
              /\ ret[i][1] \notin Whitespace
              /\ ret[i][Len(ret[i])] \notin Whitespace

\* A text with a padded upper-case line, a whitespace-only line and a last line
\* has been parsed to two tiles.
C10_Witness ==
    /\ pc = "parsed"
    /\ text = <<" ", "B", "\n", " ", "\n", "a">>
    /\ ret = << <<"b">>, <<"a">> >>

(***************************************************************************)
(* validate_puzzle applied to short tile lists and to lists around the     *)
(* maximum length.                                                         *)
(***************************************************************************)
ValidateTiles ==
    { << >>, <<"a">>, <<" ">>, <<"a", "b">>,
      Rep("a", MaxTileLen), Rep("a", MaxTileLen + 1), Rep(" ", MaxTileLen + 1) }

\* The list of n tiles that starts with prefix and goes on with filler.
Padded(prefix, filler, n) ==
    [i \in 1..n |-> IF i <= Len(prefix) THEN prefix[i] ELSE filler]

ValidateInputs ==
    SeqsUpTo(ValidateTiles, MaxShortList)
    \cup { Padded(p, f, n) : p \in SeqsUpTo(ValidateTiles, MaxPrefix),
                             f \in ValidateTiles,
                             n \in {MaxTiles - 1, MaxTiles, MaxTiles + 1} }

InitValidate ==
    /\ pc = "validate"
    /\ tiles \in ValidateInputs
    /\ trie = TrieNode /\ calls = << >>
    /\ lexicon = None /\ lineno = 0 /\ load_word_count = 0
    /\ text = None
    /\ r = 0 /\ combo = << >> /\ perm = << >>
    /\ valid_words = {} /\ permutations_checked = 0
    /\ ret = None
    /\ base_word = None

\* is_valid, error_msg = validate_puzzle(tiles)
ValidatePuzzle ==
    /\ pc = "validate"
    /\ ret' = validate_puzzle(tiles)
    /\ pc' = "validated"
    /\ UNCHANGED <<base_word, trie, calls, lexicon, lineno, load_word_count, text, tiles,
                   r, combo, perm, valid_words, permutations_checked>>

NextValidate == ValidatePuzzle

SpecValidate == InitValidate /\ [][NextValidate]_vars

\* The positions of the tiles that are empty or too long.
Offending(ts) == {i \in 1..Len(ts) : ts[i] = << >> \/ Len(ts[i]) > MaxTileLen}
FirstOffending(ts) == CHOOSE i \in Offending(ts) : \A j \in Offending(ts) : i <= j

\* C5: validate_puzzle returns (True, "") exactly when there are 1 to 20 tiles,
\* each non-empty and at most 10 characters long; otherwise False with the
\* message of the first failing check: no tiles, more than 20 tiles, then for
\* the first offending tile in list order "Empty tile found" if it is empty
\* and else the too-long message naming that tile.
C5_ValidateResult ==
    pc = "validated" =>
        /\ ret[1] \in BOOLEAN
        /\ ret[1] <=> (Len(tiles) \in 1..20 /\ Offending(tiles) = {})
        /\ ret[1] => ret[2] = << >>
        /\ ~ret[1] =>
              ret[2] = IF Len(tiles) = 0 THEN NoTilesEntered
                       ELSE IF Len(tiles) > 20 THEN TooManyTiles
                       ELSE IF tiles[FirstOffending(tiles)] = << >>
                            THEN EmptyTileFound
                            ELSE TileTooLong(tiles[FirstOffending(tiles)])

\* A list of exactly 20 tiles is rejected for its second tile, which is too
\* long and is named in the message, although an empty tile follows it.
C5_Witness ==
    /\ pc = "validated"
    /\ Len(tiles) = 20
    /\ Len(tiles[1]) \in 1..10
    /\ Len(tiles[2]) = 11
    /\ tiles[3] = << >>
    /\ ret = <<FALSE, TileTooLong(tiles[2])>>

\* C6 as stated: in a list of 1 to 20 tiles, a tile that is empty after
\* trimming (a whitespace-only tile included) gives "Empty tile found" unless
\* an earlier tile already failed a check.
C6_EmptyAfterTrimming ==
    (/\ pc = "validated"
     /\ Len(tiles) \in 1..20
     /\ \E i \in 1..Len(tiles) :
           /\ strip(tiles[i]) = << >>
           /\ \A j \in 1..(i - 1) :
                 strip(tiles[j]) # << >> /\ Len(tiles[j]) <= 10)
    => ret = <<FALSE, EmptyTileFound>>

\* C6 as amended: in a list of 1 to 20 tiles, "Empty tile found" is returned
\* exactly when some tile is the empty string and no earlier tile is longer
\* than 10 characters; a tile of whitespace only is not empty for this check,
\* and a list of 1 to 20 such tiles of at most 10 characters is valid.
C6_EmptyStringOnly ==
    (pc = "validated" /\ Len(tiles) \in 1..20) =>
        /\ ret = <<FALSE, EmptyTileFound>>
              <=> \E i \in 1..Len(tiles) :
                     /\ tiles[i] = << >>
                     /\ \A j \in 1..(i - 1) : Len(tiles[j]) <= 10
        /\ (\A i \in 1..Len(tiles) :
               Len(tiles[i]) \in 1..10 /\ strip(tiles[i]) = << >>)
              => ret = <<TRUE, << >>>>

\* A whitespace-only tile was passed over and the empty tile after it reported.
C6_Witness ==
    /\ pc = "validated"
    /\ Len(tiles) = 2
    /\ tiles[1] = <<" ">>
    /\ tiles[2] = << >>
    /\ ret = <<FALSE, EmptyTileFound>>

(***************************************************************************)
(* solver.py: solve_puzzle                                                 *)
(***************************************************************************)
Min(a, b) == IF a <= b THEN a ELSE b

\* The code points of the characters of the model that are not letters.
OtherCodePoints ==
    ("\t" :> 9) @@ ("\n" :> 10) @@ ("\f" :> 12) @@ ("\r" :> 13)
    @@ (" " :> 32) @@ ("'" :> 39)

\* ord(c): the code point of a character
ord(c) ==
    IF \E i \in 1..Len(LowerLetters) : LowerLetters[i] = c
    THEN 96 + (CHOOSE i \in 1..Len(LowerLetters) : LowerLetters[i] = c)
    ELSE IF isupper(c)
    THEN 64 + (CHOOSE i \in 1..Len(UpperLetters) : UpperLetters[i] = c)
    ELSE OtherCodePoints[c]

RECURSIVE str_lt(_, _)
\* a < b on str: the first differing character decides by code point, and a
\* proper prefix is smaller.
str_lt(a, b) ==
    IF b = << >> THEN FALSE
    ELSE IF a = << >> THEN TRUE
    ELSE IF Head(a) = Head(b) THEN str_lt(Tail(a), Tail(b))
    ELSE ord(Head(a)) < ord(Head(b))

RECURSIVE sorted(_)
\* sorted(valid_words): the elements of the set in ascending order of <
sorted(S) ==
    IF S = {} THEN << >>
    ELSE LET lo == CHOOSE x \in S : \A y \in S \ {x} : str_lt(x, y)
         IN  <<lo>> \o sorted(S \ {lo})

\* A faulty loop bound that stops the subset size at 3: min(4, len(tiles) + 1)
range_stop_three(n) == Min(4, n + 1)

\* The stop of range(1, min(5, len(tiles) + 1))
range_stop(n) == Min(5, n + 1)

\* itertools.combinations over positions: the first combination of size k
first_combo(k) == [i \in 1..k |-> i]

\* The positions of c that can still be advanced (c[i] has not reached its
\* last value n - k + i).
Movable(c, n) == {i \in 1..Len(c) : c[i] < n - Len(c) + i}
has_next_combo(c, n) == Movable(c, n) # {}

\* itertools.combinations: the combination after c, in lexicographic order of
\* positions: the rightmost movable position is advanced and the ones after
\* it follow it.
next_combo(c, n) ==
    LET i == CHOOSE k \in Movable(c, n) : \A j \in Movable(c, n) : j <= k
    IN  [j \in 1..Len(c) |-> IF j < i THEN c[j] ELSE c[i] + 1 + (j - i)]

\* itertools.permutations: orderings in lexicographic order of positions.
Ascents(p) == {i \in 1..(Len(p) - 1) : p[i] < p[i + 1]}
has_next_perm(p) == Ascents(p) # {}
next_perm(p) ==
    LET i == CHOOSE k \in Ascents(p) : \A j \in Ascents(p) : j <= k
        j == CHOOSE k \in (i + 1)..Len(p) :
                 p[k] > p[i] /\ \A l \in (k + 1)..Len(p) : p[l] <= p[i]
        swapped == [k \in 1..Len(p) |->
                       IF k = i THEN p[j] ELSE IF k = j THEN p[i] ELSE p[k]]
    IN  [k \in 1..Len(p) |->
            IF k <= i THEN swapped[k] ELSE swapped[Len(p) + i + 1 - k]]

\* word = "".join(perm), perm being combo in the order p
joined(ts, c, p) == Concat([i \in 1..Len(p) |-> ts[c[p[i]]]])

\* A faulty counter that counts only the candidates found in the trie.
checked_after_found(count, found) == IF found THEN count + 1 ELSE count

\* permutations_checked += 1, whatever the lookup says
checked_after(count, found) == count + 1

\* The body of the innermost loop for the candidate selected by c and p.
CheckWord(c, p) ==
    LET word == joined(tiles, c, p)
        found == search(trie, word)
    IN  /\ permutations_checked' = checked_after(permutations_checked, found)
        /\ valid_words' = IF found THEN valid_words \cup {word} ELSE valid_words

\* for perm in permutations(combo): the next ordering of the same combination
NextPermutation ==
    /\ pc = "solve"
    /\ has_next_perm(perm)
    /\ perm' = next_perm(perm)
    /\ CheckWord(combo, perm')
    /\ UNCHANGED <<base_word, pc, trie, calls, lexicon, lineno, load_word_count, text,
                   tiles, r, combo, ret>>

\* for combo in combinations(tiles, r): the orderings of combo are exhausted,
\* the next combination starts with its first ordering
NextCombination ==
    /\ pc = "solve"
    /\ ~has_next_perm(perm)
    /\ has_next_combo(combo, Len(tiles))
    /\ combo' = next_combo(combo, Len(tiles))
    /\ perm' = first_combo(r)
    /\ CheckWord(combo', perm')
    /\ UNCHANGED <<base_word, pc, trie, calls, lexicon, lineno, load_word_count, text,
                   tiles, r, ret>>

\* for r in range(1, min(5, len(tiles) + 1)): the combinations of size r are
\* exhausted (or the loop starts), the next size starts with its first
\* combination
NextSize ==
    /\ pc = "solve"
    /\ ~has_next_perm(perm)
    /\ ~has_next_combo(combo, Len(tiles))
    /\ r + 1 < range_stop(Len(tiles))
    /\ r' = r + 1
    /\ combo' = first_combo(r')
    /\ perm' = first_combo(r')
    /\ CheckWord(combo', perm')
    /\ UNCHANGED <<base_word, pc, trie, calls, lexicon, lineno, load_word_count, text,
                   tiles, ret>>

\* return sorted(valid_words), permutations_checked
SolveReturn ==
    /\ pc = "solve"
    /\ ~has_next_perm(perm)
    /\ ~has_next_combo(combo, Len(tiles))
    /\ ~(r + 1 < range_stop(Len(tiles)))
    /\ ret' = <<sorted(valid_words), permutations_checked>>
    /\ pc' = "solved"
    /\ UNCHANGED <<base_word, trie, calls, lexicon, lineno, load_word_count, text, tiles,
                   r, combo, perm, valid_words, permutations_checked>>

NextSolve == NextPermutation \/ NextCombination \/ NextSize \/ SolveReturn

RECURSIVE insert_all(_, _)
\* The trie after inserting the words of ws in order.
insert_all(node, ws) ==
    IF ws = << >> THEN node ELSE insert_all(insert(node, Head(ws)), Tail(ws))

\* The first n tiles of the list that repeats base for ever.
Cyclic(base, n) == [i \in 1..n |-> base[((i - 1) % Len(base)) + 1]]

SolveBases ==
    { << <<"a">>, <<"b">>, <<"a", "b">> >>,
      << <<"a">> >>,
      << <<"c">>, <<"a">>, <<"t">>, <<"s">> >>,
      << <<"B">>, <<"a">> >> }

SolveDicts ==
    { << >>,
      << <<"c", "a", "t">>, <<"a", "t">>, <<"a", "c", "t">>,
         <<"c", "a", "t", "s">>, <<"c", "a", "t", "s", "c">> >>,
      << <<"a", "b">>, <<"a">>, <<"a", "a", "b">>, <<"a", "b", "a", "b">>,
         <<"a", "a", "a", "a">>, <<"a", "a", "a", "a", "a">>,
         <<"a", "b", "a", "b", "a", "b">>,
         <<"B", "a">>, <<"a", "B">>, <<"B">> >> }

InitSolveWith(lengths) ==
    /\ pc = "solve"
    /\ \E base \in SolveBases, n \in lengths : tiles = Cyclic(base, n)
    /\ \E dict \in SolveDicts :
          /\ calls = dict
          /\ trie = insert_all(TrieNode, dict)
    /\ lexicon = None /\ lineno = 0 /\ load_word_count = 0
    /\ text = None
    /\ r = 0 /\ combo = << >> /\ perm = << >>
    /\ valid_words = {} /\ permutations_checked = 0
    /\ ret = None
    /\ base_word = None

InitSolve == InitSolveWith(0..MaxSolveTiles)

SpecSolve == InitSolve /\ [][NextSolve]_vars

\* The specification of solve_puzzle with, besides the short lists, lists of
\* the maximum length validate_puzzle accepts.
InitSolveCount == InitSolveWith(0..MaxSolveTiles) \/ InitSolveWith({MaxTiles})

SpecSolveCount == InitSolveCount /\ [][NextSolve]_vars

\* The selections the claim speaks of: k tiles at pairwise distinct positions,
\* in some order, 1 <= k <= min(4, n).
Selections(n) ==
    UNION { {f \in [1..k -> 1..n] : \A i, j \in 1..k : i # j => f[i] # f[j]} :
            k \in 1..Min(4, n) }
Spelled(ts, f) == Concat([i \in 1..Len(f) |-> ts[f[i]]])
\* The candidates that the trie holds.
Expected(ts, node) ==
    {w \in {Spelled(ts, f) : f \in Selections(Len(ts))} : search(node, w)}

\* a comes strictly before b in lexicographic order of code points.
LexLess(a, b) ==
    \E k \in 1..Len(b) :
        /\ \A i \in 1..(k - 1) : i <= Len(a) /\ a[i] = b[i]
        /\ \/ k = Len(a) + 1
           \/ k <= Len(a) /\ ord(a[k]) < ord(b[k])

\* C1: for a validated puzzle solve_puzzle returns (it never stops before its
\* return), its word list holds exactly the concatenations of 1 to min(4, n)
\* tiles at distinct positions that the trie finds, in strictly ascending
\* lexicographic order and so without duplicates, and is empty when no
\* candidate is in the trie.
C1_SolveWords ==
    validate_puzzle(tiles)[1] =>
        /\ pc = "solve" => ENABLED NextSolve
        /\ pc = "solved" =>
              /\ Range(ret[1]) = Expected(tiles, trie)
              /\ \A i \in 1..(Len(ret[1]) - 1) : LexLess(ret[1][i], ret[1][i + 1])
              /\ Expected(tiles, trie) = {} => ret[1] = << >>

\* Five tiles a, b, ab, a, b have been solved against a dictionary: the word
\* "ab" is spelled by several selections and listed once, a word of four tiles
\* is found, and a dictionary word that takes all five tiles is not.
C1_Witness ==
    /\ pc = "solved"
    /\ validate_puzzle(tiles)[1]
    /\ Len(tiles) = 5
    /\ Cardinality({f \in Selections(5) : Spelled(tiles, f) = <<"a", "b">>}) > 1
    /\ Len(ret[1]) >= 3
    /\ \E i \in 1..Len(ret[1]) : ret[1][i] = <<"a", "b">>
    /\ \E i \in 1..Len(ret[1]) : ret[1][i] = <<"a", "b", "a", "b">>
    /\ search(trie, <<"a", "b", "a", "b", "a", "b">>)
    /\ joined(tiles, first_combo(5), <<1, 2, 3, 4, 5>>)
          = <<"a", "b", "a", "b", "a", "b">>
    /\ \A i \in 1..Len(ret[1]) : ret[1][i] # <<"a", "b", "a", "b", "a", "b">>

RECURSIVE Falling(_, _)
\* n! / (n - k)! = n (n - 1) ... (n - k + 1)
Falling(n, k) == IF k = 0 THEN 1 ELSE (n - k + 1) * Falling(n, k - 1)

RECURSIVE SumFalling(_, _)
\* The sum of n! / (n - k)! over k = 1..m
SumFalling(n, m) == IF m = 0 THEN 0 ELSE Falling(n, m) + SumFalling(n, m - 1)

\* C2: permutations_checked as returned is the sum over k = 1..min(4, n) of
\* n!/(n-k)!, a function of the number of tiles alone (whatever the tile texts,
\* the trie and the number of valid or repeated candidates); it is 15 for
\* n = 3 and 123520 for n = 20.
C2_PermutationsChecked ==
    pc = "solved" =>
        /\ ret[2] = SumFalling(Len(tiles), Min(4, Len(tiles)))
        /\ Len(tiles) = 3 => ret[2] = 15
        /\ Len(tiles) = 20 => ret[2] = 123520

\* Twenty tiles with repeated texts have been solved: 123520 candidates were
\* counted although the words found are few.
C2_Witness ==
    /\ pc = "solved"
    /\ Len(tiles) = 20
    /\ \E i, j \in 1..20 : i # j /\ tiles[i] = tiles[j]
    /\ ret[1] # << >>
    /\ ret[2] = 123520

(***************************************************************************)
(* word_generator.py                                                       *)
(***************************************************************************)
\* A faulty plural whose "y" rule tests neither the length of the word nor
\* the character before the "y": if word.endswith("y")
generate_plural_any_y(word) ==
    IF \E suffix \in {<<"s">>, <<"s", "h">>, <<"c", "h">>, <<"x">>, <<"z">>} :
           endswith(word, suffix)
    THEN word \o <<"e", "s">>
    ELSE IF endswith(word, <<"y">>)
    THEN SubSeq(word, 1, Len(word) - 1) \o <<"i", "e", "s">>
    ELSE word \o <<"s">>

\* generate_plural(word)
generate_plural(word) ==
    IF \E suffix \in {<<"s">>, <<"s", "h">>, <<"c", "h">>, <<"x">>, <<"z">>} :
           endswith(word, suffix)
    THEN word \o <<"e", "s">>
    ELSE IF /\ endswith(word, <<"y">>)
            /\ Len(word) > 1
            /\ word[Len(word) - 1] \notin {"a", "e", "i", "o", "u"}
    THEN SubSeq(word, 1, Len(word) - 1) \o <<"i", "e", "s">>
    ELSE word \o <<"s">>

\* Faulty verb forms whose participle drops a final "e" whatever the length
\* of the word: if word.endswith("e")
generate_verb_forms_any_e(word) ==
    LET past == IF endswith(word, <<"e">>)
                THEN word \o <<"d">>
                ELSE word \o <<"e", "d">>
        participle == IF endswith(word, <<"e">>)
                      THEN SubSeq(word, 1, Len(word) - 1) \o <<"i", "n", "g">>
                      ELSE word \o <<"i", "n", "g">>
    IN  <<past, participle>>

\* generate_verb_forms(word) -> (past, participle)
generate_verb_forms(word) ==
    LET past == IF endswith(word, <<"e">>)
                THEN word \o <<"d">>
                ELSE word \o <<"e", "d">>
        participle == IF endswith(word, <<"e">>) /\ Len(word) > 1
                      THEN SubSeq(word, 1, Len(word) - 1) \o <<"i", "n", "g">>
                      ELSE word \o <<"i", "n", "g">>
    IN  <<past, participle>>

(***************************************************************************)
(* dictionary.py: load_dictionary                                          *)
(***************************************************************************)
\* \d, for the ASCII digits
Digits == {"0", "1", "2", "3", "4", "5", "6", "7", "8", "9"}

\* The position after literal when it stands at position i of s; 0 when it
\* does not, or when the match has already failed (i = 0).
after_literal(s, i, literal) ==
    IF /\ i # 0
       /\ i + Len(literal) - 1 <= Len(s)
       /\ SubSeq(s, i, i + Len(literal) - 1) = literal
    THEN i + Len(literal)
    ELSE 0

\* The position after the longest run of characters of class (or, when class
\* is negated, of characters outside it) that starts at position i; 0 when the
\* run is empty or the match has already failed.
after_run(s, i, class, negated) ==
    LET In(k) == (s[k] \in class) # negated
    IN  IF i = 0 \/ i > Len(s) \/ ~In(i) THEN 0
        ELSE CHOOSE e \in (i + 1)..(Len(s) + 1) :
                 /\ \A k \in i..(e - 1) : In(k)
                 /\ e <= Len(s) => ~In(e)

\* The end of a match of the pattern from the start of s, 0 if there is none:
\*   s\(\d+,\d+,'([^']+)',([nvasr]),\d+,\d+\)\.?
\* with the positions where the two groups start. \d+ cannot give back a
\* character to the comma that follows it, nor [^']+ to the quote, so the
\* longest runs decide.
pattern_positions(s) ==
    LET p1 == after_literal(s, 1, <<"s", "(">>)
        p2 == after_run(s, p1, Digits, FALSE)
        p3 == after_literal(s, p2, <<",">>)
        p4 == after_run(s, p3, Digits, FALSE)
        p5 == after_literal(s, p4, <<",", "'">>)
        p6 == after_run(s, p5, {"'"}, TRUE)
        p7 == after_literal(s, p6, <<"'", ",">>)
        p8 == IF p7 # 0 /\ p7 <= Len(s) /\ s[p7] \in {"n", "v", "a", "s", "r"}
              THEN p7 + 1
              ELSE 0
        p9 == after_literal(s, p8, <<",">>)
        p10 == after_run(s, p9, Digits, FALSE)
        p11 == after_literal(s, p10, <<",">>)
        p12 == after_run(s, p11, Digits, FALSE)
        p13 == after_literal(s, p12, <<")">>)
        p14 == IF after_literal(s, p13, <<".">>) # 0 THEN p13 + 1 ELSE p13
    IN  [end |-> p14, g1 |-> p5, g1end |-> p6, g2 |-> p7]

\* A faulty match that must cover the whole string (re.fullmatch).
pattern_fullmatch(s) ==
    LET p == pattern_positions(s)
    IN  IF p.end = 0 \/ p.end # Len(s) + 1
        THEN [matched |-> FALSE, group1 |-> << >>, group2 |-> ""]
        ELSE [matched |-> TRUE,
              group1 |-> SubSeq(s, p.g1, p.g1end - 1),
              group2 |-> s[p.g2]]

\* pattern.match(s): the pattern is matched at the start of s and need not
\* reach its end. matched FALSE stands for the result None.
pattern_match(s) ==
    LET p == pattern_positions(s)
    IN  IF p.end = 0
        THEN [matched |-> FALSE, group1 |-> << >>, group2 |-> ""]
        ELSE [matched |-> TRUE,
              group1 |-> SubSeq(s, p.g1, p.g1end - 1),
              group2 |-> s[p.g2]]

\* A faulty proper-noun test made on the lower-cased headword.
is_proper_noun_lowered(m) == isupper(lower(m.group1)[1])

\* match.group(1)[0].isupper()
is_proper_noun(m) == isupper(m.group1[1])

\* The words one entry inserts, in order: the base word, the plural of a
\* noun, the past and participle of a verb.
entry_words(word, part_of_speech) ==
    <<word>>
    \o (IF part_of_speech = "n" THEN <<generate_plural(word)>> ELSE << >>)
    \o (IF part_of_speech = "v" THEN generate_verb_forms(word) ELSE << >>)

\* A faulty counter that adds 1 for the two forms of a verb.
count_after_entry_verb_once(count, part_of_speech) ==
    count + 1 + (IF part_of_speech = "n" THEN 1 ELSE 0)
              + (IF part_of_speech = "v" THEN 1 ELSE 0)

\* word_count after one entry: += 1, += 1 for a noun, += 2 for a verb
count_after_entry(count, part_of_speech) ==
    count + 1 + (IF part_of_speech = "n" THEN 1 ELSE 0)
              + (IF part_of_speech = "v" THEN 2 ELSE 0)

\* match = pattern.match(line.strip()) for the line the loop is at
CurrentMatch == pattern_match(strip(lexicon[lineno + 1].text))

\* if not match: continue
SkipNoMatch ==
    /\ pc = "load"
    /\ lineno < Len(lexicon)
    /\ ~CurrentMatch.matched
    /\ lineno' = lineno + 1
    /\ UNCHANGED <<base_word, pc, trie, calls, lexicon, load_word_count, text, tiles,
                   r, combo, perm, valid_words, permutations_checked, ret>>

\* if match.group(1)[0].isupper(): continue
SkipProperNoun ==
    /\ pc = "load"
    /\ lineno < Len(lexicon)
    /\ CurrentMatch.matched
    /\ is_proper_noun(CurrentMatch)
    /\ lineno' = lineno + 1
    /\ UNCHANGED <<base_word, pc, trie, calls, lexicon, load_word_count, text, tiles,
                   r, combo, perm, valid_words, permutations_checked, ret>>

\* The rest of the loop body: insert the base word and its generated forms.
LoadEntry ==
    /\ pc = "load"
    /\ lineno < Len(lexicon)
    /\ CurrentMatch.matched
    /\ ~is_proper_noun(CurrentMatch)
    /\ LET word == lower(strip(CurrentMatch.group1))
           part_of_speech == CurrentMatch.group2
           words == entry_words(word, part_of_speech)
       IN  /\ trie' = insert_all(trie, words)
           /\ calls' = calls \o words
           /\ load_word_count' = count_after_entry(load_word_count, part_of_speech)
    /\ lineno' = lineno + 1
    /\ UNCHANGED <<base_word, pc, lexicon, text, tiles,
                   r, combo, perm, valid_words, permutations_checked, ret>>

\* return trie, word_count
LoadReturn ==
    /\ pc = "load"
    /\ lineno = Len(lexicon)
    /\ ret' = <<trie, load_word_count>>
    /\ pc' = "loaded"
    /\ UNCHANGED <<base_word, trie, calls, lexicon, lineno, load_word_count, text, tiles,
                   r, combo, perm, valid_words, permutations_checked>>

NextLoad == SkipNoMatch \/ SkipProperNoun \/ LoadEntry \/ LoadReturn

(***************************************************************************)
(* The lexicons load_dictionary is run on. A line is kept with the parts it *)
(* was written from; load_dictionary reads only its text.                  *)
(***************************************************************************)
Line(lead, id, headword, pos, tail) ==
    [text |-> lead \o <<"s", "(">> \o id \o <<",", "1", ",", "'">> \o headword
              \o <<"'", ",">> \o pos \o <<",", "1", ",", "6", ")">> \o tail,
     lead |-> lead, id |-> id, headword |-> headword, pos |-> pos,
     tail |-> tail]

\* A line that is no entry at all.
Junk(t) ==
    [text |-> t, lead |-> t, id |-> << >>, headword |-> << >>, pos |-> << >>,
     tail |-> << >>]

LexiconLines ==
    \* entries in the documented format, ended by a period and a newline
    { Line(<< >>, <<"1">>, hw, pos, <<".", "\n">>) :
        hw \in { <<"c", "a", "t">>, <<"C", "a", "t">>,
                 <<"c", "a", "t", "s">>, <<"C", "a", "t", "s">> },
        pos \in { <<"n">>, <<"v">> } }
    \cup
    { Line(<< >>, <<"1">>, <<"c", "a", "t">>, <<"a">>, <<".", "\n">>),
      Line(<< >>, <<"1">>, <<"c", "a", "t">>, <<"s">>, <<".", "\n">>),
      Line(<< >>, <<"1">>, <<"c", "A", "t">>, <<"r">>, <<".", "\n">>),
      Line(<< >>, <<"1">>, <<"f", "l", "y">>, <<"n">>, <<".", "\n">>),
      Line(<< >>, <<"1">>, <<"e">>, <<"v">>, <<".", "\n">>),
      \* headwords with surrounding whitespace
      Line(<< >>, <<"1">>, <<" ", "c", "a", "t">>, <<"n">>, <<".", "\n">>),
      Line(<< >>, <<"1">>, <<" ", "C", "a", "t", " ">>, <<"a">>, <<".", "\n">>),
      \* other line ends and line starts
      Line(<< >>, <<"1">>, <<"c", "a", "t">>, <<"n">>, << >>),
      Line(<< >>, <<"1">>, <<"c", "a", "t">>, <<"n">>, <<"\n">>),
      Line(<<" ">>, <<"1", "2">>, <<"c", "a", "t">>, <<"n">>, <<".", " ", "\n">>),
      Line(<< >>, <<"1">>, <<"c", "a", "t">>, <<"n">>, <<".", "z", "z", "\n">>),
      Line(<< >>, <<"1">>, <<"c", "a", "t">>, <<"v">>, <<")", "\n">>),
      Line(<< >>, <<"1">>, <<"C", "a", "t">>, <<"n">>, <<".", "z", "z", "\n">>),
      Line(<<"x">>, <<"1">>, <<"c", "a", "t">>, <<"n">>, <<".", "\n">>),
      \* broken fields
      Line(<< >>, << >>, <<"c", "a", "t">>, <<"n">>, <<".", "\n">>),
      Line(<< >>, <<"1", "x">>, <<"c", "a", "t">>, <<"n">>, <<".", "\n">>),
      Line(<< >>, <<"1">>, << >>, <<"n">>, <<".", "\n">>),
      Line(<< >>, <<"1">>, <<"c", "a", "'", "t">>, <<"n">>, <<".", "\n">>),
      Line(<< >>, <<"1">>, <<"c", "a", "t">>, <<"x">>, <<".", "\n">>),
      Line(<< >>, <<"1">>, <<"c", "a", "t">>, <<"n", "v">>, <<".", "\n">>),
      Line(<< >>, <<"1">>, <<"c", "a", "t">>, << >>, <<".", "\n">>),
      Junk(<<"\n">>),
      Junk(<<"%", " ", "c", "a", "t", "\n">>) }

InitLoad ==
    /\ pc = "load"
    /\ lexicon \in SeqsUpTo(LexiconLines, MaxLines)
    /\ lineno = 0
    /\ trie = TrieNode
    /\ calls = << >>
    /\ load_word_count = 0
    /\ text = None /\ tiles = None
    /\ r = 0 /\ combo = << >> /\ perm = << >>
    /\ valid_words = {} /\ permutations_checked = 0
    /\ ret = None
    /\ base_word = None

SpecLoad == InitLoad /\ [][NextLoad]_vars

\* What the claims say of a line, read off the parts it was written from.
Blank(t) == \A i \in 1..Len(t) : t[i] \in Whitespace
\* The line starts, after leading whitespace, with a complete entry
\* s(<int>,<int>,'<headword>',<pos>,<int>,<int>)
HasEntry(e) ==
    /\ Blank(e.lead)
    /\ e.id # << >> /\ \A i \in 1..Len(e.id) : e.id[i] \in Digits
    /\ e.headword # << >> /\ \A i \in 1..Len(e.headword) : e.headword[i] # "'"
    /\ Len(e.pos) = 1 /\ e.pos[1] \in {"n", "v", "a", "s", "r"}
\* The line as a whole is an entry: nothing but an optional period and
\* whitespace follows it.
WholeLineIsEntry(e) ==
    /\ HasEntry(e)
    /\ \/ Blank(e.tail)
       \/ e.tail[1] = "." /\ Blank(Tail(e.tail))
Capitalised(e) == isupper(e.headword[1])

\* The base word and the generated forms of an entry whose base word is w.
Forms(w, pos) ==
    {w}
    \cup (IF pos = "n" THEN {generate_plural(w)} ELSE {})
    \cup (IF pos = "v"
          THEN {generate_verb_forms(w)[1], generate_verb_forms(w)[2]}
          ELSE {})

\* The lines load_dictionary takes an entry from, among the first k.
Taken(k) == {i \in 1..k : HasEntry(lexicon[i]) /\ ~Capitalised(lexicon[i])}
TakenWords(i) == Forms(lower(strip(lexicon[i].headword)), lexicon[i].pos[1])

\* Every word the lines of the lexicon could contribute under any reading,
\* and every word that was inserted.
HeadwordReadings(e) ==
    {e.headword, lower(e.headword), lower(strip(e.headword))}
Candidates ==
    Range(calls)
    \cup UNION { UNION { Forms(w, lexicon[i].pos[1]) :
                           w \in HeadwordReadings(lexicon[i]) } :
                 i \in {j \in 1..Len(lexicon) : lexicon[j].pos # << >>} }
Stored == {w \in Candidates : search(trie, w)}

\* C7 as stated: an entry whose headword starts with an upper-case letter is
\* found in no casing after load_dictionary, whatever the other entries
\* contribute.
C7_ProperNounNeverFound ==
    pc = "loaded" =>
        \A i \in 1..Len(lexicon) :
            (HasEntry(lexicon[i]) /\ Capitalised(lexicon[i])) =>
                /\ ~search(ret[1], lexicon[i].headword)
                /\ ~search(ret[1], lower(lexicon[i].headword))

\* C7 as amended: the step over a capitalised entry changes neither the trie
\* nor the counter; after load_dictionary its spelling with the upper-case
\* letter is not found, and its lower-cased form is found exactly when an
\* entry that was taken contributes that word, as its base word or as a
\* generated form.
C7_ProperNounEntrySkipped ==
    /\ [](pc = "loaded" =>
            \A i \in 1..Len(lexicon) :
                (HasEntry(lexicon[i]) /\ Capitalised(lexicon[i])) =>
                    /\ ~search(ret[1], lexicon[i].headword)
                    /\ search(ret[1], lower(lexicon[i].headword))
                          <=> \E j \in Taken(Len(lexicon)) :
                                 lower(lexicon[i].headword) \in TakenWords(j))
    /\ [][(/\ pc = "load"
           /\ lineno' = lineno + 1
           /\ HasEntry(lexicon[lineno'])
           /\ Capitalised(lexicon[lineno']))
          => (trie' = trie /\ load_word_count' = load_word_count)]_vars

\* The lexicon holds 'Cats' besides the noun 'cat': "cats" is found as the
\* plural of "cat", "Cats" is not.
C7_Witness ==
    /\ pc = "loaded"
    /\ Len(lexicon) = 2
    /\ lexicon[1].headword = <<"C", "a", "t", "s">>
    /\ lexicon[2].headword = <<"c", "a", "t">> /\ lexicon[2].pos = <<"n">>
    /\ search(ret[1], <<"c", "a", "t", "s">>)
    /\ ~search(ret[1], <<"C", "a", "t", "s">>)
    /\ ret[2] = 2

\* C8 as stated: the trie holds exactly the lower-cased headword and the
\* generated forms of the lines that as a whole have the documented format and
\* whose headword does not start with an upper-case letter; every other line
\* adds nothing.
C8_WholeLineEntries ==
    pc = "loaded" =>
        Stored = UNION { Forms(lower(lexicon[i].headword), lexicon[i].pos[1]) :
                           i \in {j \in 1..Len(lexicon) :
                                     /\ WholeLineIsEntry(lexicon[j])
                                     /\ ~Capitalised(lexicon[j])} }

\* C8 as amended: at every point of the loop, and so at the return, the trie
\* holds exactly the words of the lines taken so far: those that, after
\* trimming, start with an entry of the documented format (whatever follows
\* it) whose headword does not start with an upper-case letter, each giving
\* its headword trimmed and lower-cased, the plural for a noun and the past
\* and participle for a verb; every other line adds nothing.
C8_LeadingEntries ==
    /\ pc = "load" => lineno <= Len(lexicon) /\ ret = None
    /\ pc = "loaded" => lineno = Len(lexicon) /\ ret[1] = trie
    /\ pc \in {"load", "loaded"} =>
          Stored = UNION { TakenWords(i) : i \in Taken(lineno) }

\* A line with text after its entry and a line whose headword has a leading
\* space were both taken, and a line with a broken field was not.
C8_Witness ==
    /\ pc = "loaded"
    /\ \E i \in Taken(Len(lexicon)) : ~WholeLineIsEntry(lexicon[i])
    /\ \E i \in Taken(Len(lexicon)) : lexicon[i].headword[1] = " "
    /\ Stored = {<<"c", "a", "t">>, <<"c", "a", "t", "s">>,
                 <<"c", "a", "t", "e", "d">>, <<"c", "a", "t", "i", "n", "g">>}

Count(S) == Cardinality(S)

\* C9: the counter of load_dictionary is A + N + 2 V for the A entries taken,
\* N of them nouns and V verbs, so lines that are skipped do not change it; it
\* is the number of insertions made, at least trie.word_count(), and greater
\* whenever two insertions gave the same word.
C9_CounterCountsAttempts ==
    /\ pc \in {"load", "loaded"} =>
          /\ load_word_count
                = Count(Taken(lineno))
                  + Count({i \in Taken(lineno) : lexicon[i].pos = <<"n">>})
                  + 2 * Count({i \in Taken(lineno) : lexicon[i].pos = <<"v">>})
          /\ load_word_count = Len(calls)
          /\ load_word_count >= word_count(trie)
          /\ (\E i, j \in 1..Len(calls) : i # j /\ calls[i] = calls[j])
                => load_word_count > word_count(trie)
    /\ pc = "loaded" => ret[2] = load_word_count /\ ret[1] = trie

\* A verb entry and a noun entry with the same base word were loaded: five
\* insertions were counted and four words are stored.
C9_Witness ==
    /\ pc = "loaded"
    /\ \E i \in Taken(Len(lexicon)) : lexicon[i].pos = <<"v">>
    /\ \E i \in Taken(Len(lexicon)) : lexicon[i].pos = <<"n">>
    /\ ret[2] = 5
    /\ word_count(ret[1]) = 4

(***************************************************************************)
(* word_generator.py: generate_plural and generate_verb_forms called on    *)
(* one word                                                                *)
(***************************************************************************)
MaxMorphLen == 3

\* The characters the rules look at ("s", "h", "c", "x", "z", "y", "e"), one
\* more vowel and one character that no rule mentions.
MorphAlphabet == {"s", "h", "c", "x", "z", "y", "e", "o", "b"}

\* The words of the unit tests, and two words with capitals.
TestWords ==
    {<<"c", "a", "t">>, <<"d", "o", "g">>, <<"b", "o", "x">>,
     <<"c", "h", "u", "r", "c", "h">>, <<"d", "i", "s", "h">>,
     <<"b", "u", "z", "z">>, <<"f", "l", "y">>, <<"b", "o", "y">>,
     <<"k", "e", "y">>, <<"w", "a", "l", "k">>, <<"m", "a", "k", "e">>,
     <<"Y">>, <<"A", "y">>, <<"E">>}

MorphWords == SeqsUpTo(MorphAlphabet, MaxMorphLen) \cup TestWords

InitMorph ==
    /\ pc = "morph"
    /\ base_word \in MorphWords
    /\ trie = TrieNode
    /\ calls = << >>
    /\ lexicon = << >>
    /\ lineno = 0
    /\ load_word_count = 0
    /\ text = << >>
    /\ tiles = << >>
    /\ r = 0
    /\ combo = << >>
    /\ perm = << >>
    /\ valid_words = {}
    /\ permutations_checked = 0
    /\ ret = None

\* plural = generate_plural(word)
GeneratePlural ==
    /\ pc = "morph"
    /\ pc' = "pluralized"
    /\ ret' = generate_plural(base_word)
    /\ UNCHANGED <<base_word, trie, calls, lexicon, lineno, load_word_count, text,
                   tiles, r, combo, perm, valid_words, permutations_checked>>

\* past, participle = generate_verb_forms(word)
GenerateVerbForms ==
    /\ pc = "morph"
    /\ pc' = "conjugated"
    /\ ret' = generate_verb_forms(base_word)
    /\ UNCHANGED <<base_word, trie, calls, lexicon, lineno, load_word_count, text,
                   tiles, r, combo, perm, valid_words, permutations_checked>>

NextMorph == GeneratePlural \/ GenerateVerbForms

SpecMorph == InitMorph /\ [][NextMorph]_vars

Vowels == {"a", "e", "i", "o", "u"}

\* The word without its last character.
Front(w) == [i \in 1..(Len(w) - 1) |-> w[i]]

\* The word ends with "s", "sh", "ch", "x" or "z", read off its last two
\* characters.
SibilantEnding(w) ==
    LET n == Len(w)
    IN  \/ n >= 1 /\ w[n] \in {"s", "x", "z"}
        \/ n >= 2 /\ w[n] = "h" /\ w[n - 1] \in {"s", "c"}

\* The word has at least two characters, ends with "y", and the character
\* before the "y" is not a vowel.
ConsonantY(w) ==
    LET n == Len(w)
    IN  n > 1 /\ w[n] = "y" /\ w[n - 1] \notin Vowels

\* C12: generate_plural applies the first matching rule of: sibilant ending
\* -> word + "es"; consonant + "y" -> word without the "y" + "ies"; otherwise
\* word + "s". So "y" alone and vowel + "y" get "s", and the result is never
\* the input.
C12_PluralFirstMatchingRule ==
    pc = "pluralized" =>
        LET w == base_word
            n == Len(w)
        IN  /\ ret = (IF SibilantEnding(w) THEN w \o <<"e", "s">>
                      ELSE IF ConsonantY(w) THEN Front(w) \o <<"i", "e", "s">>
                      ELSE w \o <<"s">>)
            /\ w = <<"y">> => ret = <<"y", "s">>
            /\ (n >= 2 /\ w[n] = "y" /\ w[n - 1] \in Vowels) => ret = w \o <<"s">>
            /\ ret # w

\* The plural of the single-character word "y" is "ys".
C12_Witness ==
    /\ pc = "pluralized"
    /\ base_word = <<"y">>
    /\ ret = <<"y", "s">>

NumSolvers == 2
MaxSharedTiles == 2

Solvers == 1..NumSolvers

SharedBases ==
    { << <<"a">>, <<"b">>, <<"a", "a">> >>,
      << <<"a", "b">>, <<"a">>, <<"b">> >> }

SharedTileLists == {Cyclic(base, n) : base \in SharedBases, n \in 0..MaxSharedTiles}

SharedDicts ==
    { << <<"a", "b">>, <<"a">>, <<"a", "a", "b">>, <<"b", "a", "a">> >>,
      << <<"b", "a">>, <<"a", "b", "a">>, <<"a", "a", "a">> >> }

RECURSIVE search_creating_nodes(_, _)
\* The trie after a faulty lookup that creates the children it does not find:
\* node = node.children.setdefault(char, TrieNode())
search_creating_nodes(node, word) ==
    IF word = << >>
    THEN node
    ELSE LET char  == Head(word)
             child == IF char \in DOMAIN node.children
                      THEN node.children[char]
                      ELSE TrieNode
         IN  [node EXCEPT !.children =
                 [c \in DOMAIN node.children \cup {char} |->
                     IF c = char THEN search_creating_nodes(child, Tail(word))
                                 ELSE node.children[c]]]

\* The trie after TrieNode.search(word): the method reads node.children and
\* node.is_end, and assigns only its local name node.
trie_after_search(node, word) == node

InitShared ==
    /\ pc = [i \in Solvers |-> "idle"]
    /\ \E dict \in SharedDicts :
          /\ calls = dict
          /\ trie = insert_all(TrieNode, dict)
    /\ tiles = [i \in Solvers |-> << >>]
    /\ r = [i \in Solvers |-> 0]
    /\ combo = [i \in Solvers |-> << >>]
    /\ perm = [i \in Solvers |-> << >>]
    /\ valid_words = [i \in Solvers |-> {}]
    /\ permutations_checked = [i \in Solvers |-> 0]
    /\ ret = [i \in Solvers |-> None]
    /\ lexicon = None /\ lineno = 0 /\ load_word_count = 0
    /\ text = None
    /\ base_word = None

\* solve_puzzle(tiles, trie) is called: valid_words = set(),
\* permutations_checked = 0. A caller whose call has returned may call again.
SharedCall(i) ==
    /\ pc[i] \in {"idle", "solved"}
    /\ \E ts \in SharedTileLists : tiles' = [tiles EXCEPT ![i] = ts]
    /\ pc' = [pc EXCEPT ![i] = "solve"]
    /\ valid_words' = [valid_words EXCEPT ![i] = {}]
    /\ permutations_checked' = [permutations_checked EXCEPT ![i] = 0]
    /\ r' = [r EXCEPT ![i] = 0]
    /\ combo' = [combo EXCEPT ![i] = << >>]
    /\ perm' = [perm EXCEPT ![i] = << >>]
    /\ ret' = [ret EXCEPT ![i] = None]
    /\ UNCHANGED <<base_word, trie, calls, lexicon, lineno, load_word_count, text>>

\* The body of the innermost loop of caller i for the candidate selected by c
\* and p: the lookup is made in the trie as it is at this step.
SharedCheckWord(i, c, p) ==
    LET word == joined(tiles[i], c, p)
        found == search(trie, word)
    IN  /\ permutations_checked' =
               [permutations_checked EXCEPT ![i] = checked_after(@, found)]
        /\ valid_words' =
               [valid_words EXCEPT ![i] = IF found THEN @ \cup {word} ELSE @]
        /\ trie' = trie_after_search(trie, word)

\* for perm in permutations(combo), in caller i
SharedNextPermutation(i) ==
    /\ pc[i] = "solve"
    /\ has_next_perm(perm[i])
    /\ perm' = [perm EXCEPT ![i] = next_perm(@)]
    /\ SharedCheckWord(i, combo[i], perm'[i])
    /\ UNCHANGED <<base_word, pc, calls, lexicon, lineno, load_word_count, text,
                   tiles, r, combo, ret>>

\* for combo in combinations(tiles, r), in caller i
SharedNextCombination(i) ==
    /\ pc[i] = "solve"
    /\ ~has_next_perm(perm[i])
    /\ has_next_combo(combo[i], Len(tiles[i]))
    /\ combo' = [combo EXCEPT ![i] = next_combo(@, Len(tiles[i]))]
    /\ perm' = [perm EXCEPT ![i] = first_combo(r[i])]
    /\ SharedCheckWord(i, combo'[i], perm'[i])
    /\ UNCHANGED <<base_word, pc, calls, lexicon, lineno, load_word_count, text,
                   tiles, r, ret>>

\* for r in range(1, min(5, len(tiles) + 1)), in caller i
SharedNextSize(i) ==
    /\ pc[i] = "solve"
    /\ ~has_next_perm(perm[i])
    /\ ~has_next_combo(combo[i], Len(tiles[i]))
    /\ r[i] + 1 < range_stop(Len(tiles[i]))
    /\ r' = [r EXCEPT ![i] = @ + 1]
    /\ combo' = [combo EXCEPT ![i] = first_combo(r'[i])]
    /\ perm' = [perm EXCEPT ![i] = first_combo(r'[i])]
    /\ SharedCheckWord(i, combo'[i], perm'[i])
    /\ UNCHANGED <<base_word, pc, calls, lexicon, lineno, load_word_count, text,
                   tiles, ret>>

\* return sorted(valid_words), permutations_checked, in caller i
SharedSolveReturn(i) ==
    /\ pc[i] = "solve"
    /\ ~has_next_perm(perm[i])
    /\ ~has_next_combo(combo[i], Len(tiles[i]))
    /\ ~(r[i] + 1 < range_stop(Len(tiles[i])))
    /\ ret' = [ret EXCEPT ![i] = <<sorted(valid_words[i]), permutations_checked[i]>>]
    /\ pc' = [pc EXCEPT ![i] = "solved"]
    /\ UNCHANGED <<base_word, trie, calls, lexicon, lineno, load_word_count, text,
                   tiles, r, combo, perm, valid_words, permutations_checked>>

NextShared ==
    \E i \in Solvers :
        \/ SharedCall(i)
        \/ SharedNextPermutation(i)
        \/ SharedNextCombination(i)
        \/ SharedNextSize(i)
        \/ SharedSolveReturn(i)

SpecShared == InitShared /\ [][NextShared]_vars

\* The locals of one call of solve_puzzle that has just looked up the
\* candidate selected by c and p of size k in node, nobody else running.
AloneChecked(ts, node, st, k, c, p) ==
    LET word == joined(ts, c, p)
        found == search(node, word)
    IN  [r |-> k, combo |-> c, perm |-> p,
         valid_words |-> IF found THEN st.valid_words \cup {word}
                                  ELSE st.valid_words,
         permutations_checked |-> checked_after(st.permutations_checked, found)]

RECURSIVE RunAlone(_, _, _)
\* What solve_puzzle(ts, node) returns when it runs from the locals st to its
\* return with no other call in between.
RunAlone(ts, node, st) ==
    IF has_next_perm(st.perm)
    THEN RunAlone(ts, node,
                  AloneChecked(ts, node, st, st.r, st.combo, next_perm(st.perm)))
    ELSE IF has_next_combo(st.combo, Len(ts))
    THEN RunAlone(ts, node,
                  AloneChecked(ts, node, st, st.r,
                               next_combo(st.combo, Len(ts)), first_combo(st.r)))
    ELSE IF st.r + 1 < range_stop(Len(ts))
    THEN RunAlone(ts, node,
                  AloneChecked(ts, node, st, st.r + 1,
                               first_combo(st.r + 1), first_combo(st.r + 1)))
    ELSE <<sorted(st.valid_words), st.permutations_checked>>

\* (words, permutations_checked) of a call of solve_puzzle(ts, node) that runs
\* alone.
SolvedAlone(ts, node) ==
    RunAlone(ts, node, [r |-> 0, combo |-> << >>, perm |-> << >>,
                        valid_words |-> {}, permutations_checked |-> 0])

\* The trie as load_dictionary built it.
BuiltTrie == insert_all(TrieNode, calls)

\* C11: calls of solve_puzzle that share one built trie and are interleaved
\* lookup by lookup never change the trie (no step of any call creates a node
\* or changes a terminal flag, so it stays the trie that was built), and every
\* call, a repeated call of the same caller included, returns the (words,
\* permutations_checked) it returns when it runs alone on that trie.
C11_SharedTrieSolvesIndependent ==
    /\ [](/\ trie = BuiltTrie
          /\ \A i \in Solvers :
                pc[i] = "solved" => ret[i] = SolvedAlone(tiles[i], BuiltTrie))
    /\ [][trie' = trie]_vars

\* One call has returned words while the call of another caller, on other
\* tiles and with other words found so far, is in the middle of its loops.
C11_Witness ==
    /\ pc[1] = "solved" /\ ret[1][1] # << >> /\ ret[1][2] = 4
    /\ pc[2] = "solve" /\ tiles[2] # tiles[1]
    /\ permutations_checked[2] \in 1..3
    /\ valid_words[2] # {} /\ valid_words[2] # Range(ret[1][1])

====
